---- MODULE Spec2Model ----
(***************************************************************************)
(* A model of jimberlage-jira-client: the JQL builder (src/src/jql.rs),    *)
(* the JSON path helper (src/src/util.rs) and the pagination loop of       *)
(* RestClient::search_all (src/src/lib.rs).                                *)
(*                                                                         *)
(* A Rust String is modelled as a sequence of characters, each character   *)
(* a one-character TLA+ string, so that escaping, joining and formatting   *)
(* are computed and not assumed.                                           *)
(***************************************************************************)
EXTENDS Integers, Sequences, FiniteSets, TLC

VARIABLES
    fn,        \* the pure function under call: its name
    input,     \* its argument(s)
    returned,  \* whether the call has returned
    output,    \* the value it returned
    pc,        \* search_all: "idle", "loop" (top of the loop), "done" (Ok), "err" (Err)
    server,    \* search_all: the behaviour of the JIRA server behind the client
    fields,    \* search_all: the `fields` argument
    jql,       \* search_all: the `jql` argument
    start_at,  \* search_all: the local start_at
    result,    \* search_all: the local result
    sent,      \* search_all: the request bodies posted to /search, in order
    pages,     \* search_all: the pages of issues the server answered with, in order
    ret        \* search_all: the value returned

vars == <<fn, input, returned, output, pc, server, fields, jql, start_at, result, sent, pages, ret>>

searchVars == <<pc, server, fields, jql, start_at, result, sent, pages, ret>>

callVars == <<fn, input, returned, output>>

----------------------------------------------------------------------------
(* Bounds of the model *)

\* longest text handed to escape_text_field on its own
MaxLen == 2

\* most nodes (clauses and the values of an IN list) of a clause serialized on its own
MaxNodes == 4

\* most nodes of the clause of a statement serialized on its own
MaxStmtNodes == 3

\* most terms of an ORDER BY
MaxParts == 2

----------------------------------------------------------------------------
(* Characters and strings *)

Quote == "\""

Backslash == "\\"

\* the characters of the second arm of the match in escape_text_field
ReservedChars ==
    {"+", "-", "&", "|", "!", "(", ")", "{", "}", "[", "]", "^", "~", "*", "?", Backslash, ":"}

\* characters no arm but the default matches: letters, a dot, a space, a non-ASCII letter
PlainChars == {"a", "P", ".", " ", "é"}

Chars == {Quote} \cup ReservedChars \cup PlainChars

RECURSIVE TextsOfLen(_)
TextsOfLen(n) ==
    IF n = 0 THEN {<<>>}
    ELSE {<<c>> \o t : c \in Chars, t \in TextsOfLen(n - 1)}

Texts == UNION {TextsOfLen(n) : n \in 0..MaxLen}

\* Vec<String>::join(sep)
RECURSIVE join(_, _)
join(strs, sep) ==
    IF Len(strs) = 0 THEN <<>>
    ELSE IF Len(strs) = 1 THEN strs[1]
    ELSE strs[1] \o sep \o join(Tail(strs), sep)

\* iter().map(f).collect::<Vec<_>>()
map(f(_), xs) == [i \in 1..Len(xs) |-> f(xs[i])]

----------------------------------------------------------------------------
(* escape_text_field *)

\* push_escaped with one backslash, not two, before a reserved character
push_escaped_single(escaped_chars, c) ==
    IF c = Quote \/ c \in {"+", "-", "&", "|", "!", "(", ")", "{", "}", "[", "]", "^", "~",
                            "*", "?", "\\", ":"}
    THEN Append(Append(escaped_chars, "\\"), c)
    ELSE Append(escaped_chars, c)

\* one turn of the for loop: the match pushes the prefix, then c is pushed
push_escaped(escaped_chars, c) ==
    LET matched ==
            IF c = Quote THEN Append(escaped_chars, Backslash)
            ELSE IF c \in ReservedChars
                 THEN Append(Append(escaped_chars, Backslash), Backslash)
                 ELSE escaped_chars
    IN Append(matched, c)

RECURSIVE escape_loop(_, _)
escape_loop(escaped_chars, rest) ==
    IF rest = <<>> THEN escaped_chars
    ELSE escape_loop(push_escaped(escaped_chars, Head(rest)), Tail(rest))

escape_text_field(s) == <<Quote>> \o escape_loop(<<>>, s) \o <<Quote>>

----------------------------------------------------------------------------
(* JQLValue *)

JQLValue_String(contents) == [variant |-> "String", contents |-> contents]

JQLValue_NaiveDate(date) == [variant |-> "NaiveDate", date |-> date]

\* years a chrono::NaiveDate can hold: the ends of its range, the years around the
\* edges of the four-digit range, and ordinary ones
Years == {-262143, -1, 0, 7, 2022, 9999, 10000, 262142}

IsLeapYear(y) == (y % 4 = 0 /\ y % 100 # 0) \/ y % 400 = 0

DaysInMonth(y, m) ==
    IF m = 2 THEN (IF IsLeapYear(y) THEN 28 + 1 ELSE 28)
    ELSE IF m \in {4, 6, 9, 11} THEN 30
    ELSE 31

\* the dates NaiveDate can be constructed with (an invalid date has no NaiveDate)
NaiveDates ==
    {date \in [year : Years, month : 1..12, day : 1..31] :
        date.day <= DaysInMonth(date.year, date.month)}

DigitChar(d) == <<"0", "1", "2", "3", "4", "5", "6", "7", "8", "9">>[d + 1]

\* the decimal digits of n >= 0, zero-padded on the left to at least width digits
RECURSIVE ZeroPadded(_, _)
ZeroPadded(n, width) ==
    IF n < 10 /\ width <= 1 THEN <<DigitChar(n)>>
    ELSE Append(ZeroPadded(n \div 10, width - 1), DigitChar(n % 10))

\* chrono's %Y: four zero-padded digits; a year outside 0..9999 gets an explicit sign
format_year(y) ==
    IF 0 <= y /\ y < 10000 THEN ZeroPadded(y, 4)
    ELSE IF y < 0 THEN <<"-">> \o ZeroPadded(-y, 4)
    ELSE <<"+">> \o ZeroPadded(y, 4)

\* date.format("%Y-%m-%d").to_string()
format_date(date) ==
    format_year(date.year) \o <<"-">> \o ZeroPadded(date.month, 2)
        \o <<"-">> \o ZeroPadded(date.day, 2)

\* JQLValue::serialize_to_jql with the date sent through the escaper as well
JQLValue_serialize_escaping_date(value) ==
    IF value.variant = "String" THEN escape_text_field(value.contents)
    ELSE escape_text_field(format_date(value.date))

JQLValue_serialize_to_jql(value) ==
    IF value.variant = "String" THEN escape_text_field(value.contents)
    ELSE <<Quote>> \o format_date(value.date) \o <<Quote>>

----------------------------------------------------------------------------
(* JQLClause *)

JQLClause_And(clauses) == [variant |-> "And", clauses |-> clauses]

JQLClause_Equals(field, value) == [variant |-> "Equals", field |-> field, value |-> value]

JQLClause_GreaterThanEquals(field, value) ==
    [variant |-> "GreaterThanEquals", field |-> field, value |-> value]

JQLClause_In(field, values) == [variant |-> "In", field |-> field, values |-> values]

JQLClause_LessThanEquals(field, value) ==
    [variant |-> "LessThanEquals", field |-> field, value |-> value]

RECURSIVE JQLClause_serialize_to_jql(_)

\* joined_clauses with a separator after every clause, the last one included
joined_clauses_trailing(clauses) ==
    IF Len(clauses) = 0 THEN <<>>
    ELSE join(map(JQLClause_serialize_to_jql, clauses), <<" ", "A", "N", "D", " ">>)
            \o <<" ", "A", "N", "D", " ">>

joined_clauses(clauses) ==
    join(map(JQLClause_serialize_to_jql, clauses), <<" ", "A", "N", "D", " ">>)

\* joined_values joined by a comma without the space
joined_values_comma(values) == join(map(JQLValue_serialize_to_jql, values), <<",">>)

joined_values(values) == join(map(JQLValue_serialize_to_jql, values), <<",", " ">>)

JQLClause_serialize_to_jql(clause) ==
    CASE clause.variant = "And" ->
            <<"(">> \o joined_clauses(clause.clauses) \o <<")">>
      [] clause.variant = "Equals" ->
            clause.field \o <<" ", "=", " ">> \o JQLValue_serialize_to_jql(clause.value)
      [] clause.variant = "GreaterThanEquals" ->
            clause.field \o <<" ", ">", "=", " ">> \o JQLValue_serialize_to_jql(clause.value)
      [] clause.variant = "In" ->
            clause.field \o <<" ", "I", "N", " ", "(">> \o joined_values(clause.values)
                \o <<")">>
      [] clause.variant = "LessThanEquals" ->
            clause.field \o <<" ", "<", "=", " ">> \o JQLValue_serialize_to_jql(clause.value)

----------------------------------------------------------------------------
(* JQLOrdering, JQLOrderByPart, JQLOrderBy, JQLStatement *)

None == [variant |-> "None"]

Some(x) == [variant |-> "Some", value |-> x]

JQLOrdering_serialize_to_jql(ordering) ==
    IF ordering = "Asc" THEN <<"A", "S", "C">> ELSE <<"D", "E", "S", "C">>

\* JQLOrderByPart::serialize_to_jql that drops the direction of a term
JQLOrderByPart_serialize_field_only(part) == part.field

JQLOrderByPart_serialize_to_jql(part) ==
    IF part.ordering.variant = "Some"
    THEN part.field \o <<" ">> \o JQLOrdering_serialize_to_jql(part.ordering.value)
    ELSE part.field

JQLOrderBy_serialize_to_jql(order_by) ==
    LET serialized_fields == join(map(JQLOrderByPart_serialize_to_jql, order_by),
                                  <<",", " ">>)
    IN <<"O", "R", "D", "E", "R", " ", "B", "Y", " ">> \o serialized_fields

\* JQLStatement::serialize_to_jql without the arm for an empty order_by
JQLStatement_serialize_no_empty_arm(statement) ==
    IF statement.order_by.variant = "Some"
    THEN JQLClause_serialize_to_jql(statement.clause) \o <<" ">>
            \o JQLOrderBy_serialize_to_jql(statement.order_by.value)
    ELSE JQLClause_serialize_to_jql(statement.clause)

JQLStatement_serialize_to_jql(statement) ==
    IF statement.order_by.variant = "Some" /\ Len(statement.order_by.value) = 0
    THEN JQLClause_serialize_to_jql(statement.clause)
    ELSE IF statement.order_by.variant = "Some"
    THEN JQLClause_serialize_to_jql(statement.clause) \o <<" ">>
            \o JQLOrderBy_serialize_to_jql(statement.order_by.value)
    ELSE JQLClause_serialize_to_jql(statement.clause)

----------------------------------------------------------------------------
(* The inputs of the JQL builder *)

\* field names: a system field, and a custom field (its name has reserved characters)
FieldNames == {<<"p", "r", "o", "j", "e", "c", "t">>, <<"c", "f", "[", "7", "]">>}

\* the values clauses are built from: plain text, text to escape, a date
SampleValues ==
    {JQLValue_String(<<"S", "R", "E">>),
     JQLValue_String(<<"^", "a", Quote>>),
     JQLValue_NaiveDate([year |-> 2022, month |-> 5, day |-> 10])}

RECURSIVE SeqsOfLen(_, _)
SeqsOfLen(S, n) ==
    IF n = 0 THEN {<<>>}
    ELSE {<<x>> \o xs : x \in S, xs \in SeqsOfLen(S, n - 1)}

\* the clauses of exactly n nodes, a node being a clause or a value of an IN list,
\* and the lists of clauses of n nodes in all
RECURSIVE ClausesOfSize(_)
RECURSIVE ClauseListsOfSize(_)
ClausesOfSize(n) ==
    {JQLClause_And(l) : l \in ClauseListsOfSize(n - 1)}
    \cup {JQLClause_In(f, vs) : f \in FieldNames, vs \in SeqsOfLen(SampleValues, n - 1)}
    \cup (IF n # 2 THEN {}
          ELSE {JQLClause_Equals(f, v) : f \in FieldNames, v \in SampleValues}
               \cup {JQLClause_GreaterThanEquals(f, v) : f \in FieldNames, v \in SampleValues}
               \cup {JQLClause_LessThanEquals(f, v) : f \in FieldNames, v \in SampleValues})

ClauseListsOfSize(m) ==
    IF m = 0 THEN {<<>>}
    ELSE UNION {{<<c>> \o l : c \in ClausesOfSize(k), l \in ClauseListsOfSize(m - k)} :
                    k \in 1..m}

Clauses(maxNodes) == UNION {ClausesOfSize(n) : n \in 1..maxNodes}

OrderByParts ==
    [field : {<<"c", "r", "e", "a", "t", "e", "d", "D", "a", "t", "e">>, <<"k", "e", "y">>},
     ordering : {None, Some("Asc"), Some("Desc")}]

OrderBys == UNION {SeqsOfLen(OrderByParts, n) : n \in 0..MaxParts}

Statements ==
    [clause : Clauses(MaxStmtNodes), order_by : {None} \cup {Some(o) : o \in OrderBys}]

----------------------------------------------------------------------------
(* Calls of the pure functions: the caller hands an input, the function returns *)

SearchIdle ==
    /\ pc = "idle"
    /\ server = None
    /\ fields = <<>>
    /\ jql = None
    /\ start_at = 0
    /\ result = <<>>
    /\ sent = <<>>
    /\ pages = <<>>
    /\ ret = None

InitJql ==
    /\ \/ fn = "escape_text_field" /\ input \in Texts
       \/ fn = "JQLValue" /\ input \in SampleValues \cup {JQLValue_NaiveDate(d) : d \in NaiveDates}
       \/ fn = "JQLClause" /\ input \in Clauses(MaxNodes)
       \/ fn = "JQLOrderBy" /\ input \in OrderBys
       \/ fn = "JQLStatement" /\ input \in Statements
    /\ returned = FALSE
    /\ output = <<>>
    /\ SearchIdle

Return(value) ==
    /\ returned = FALSE
    /\ returned' = TRUE
    /\ output' = value
    /\ UNCHANGED <<fn, input>>
    /\ UNCHANGED searchVars

Call_escape_text_field ==
    /\ fn = "escape_text_field"
    /\ Return(escape_text_field(input))

Call_JQLValue_serialize_to_jql ==
    /\ fn = "JQLValue"
    /\ Return(JQLValue_serialize_to_jql(input))

Call_JQLClause_serialize_to_jql ==
    /\ fn = "JQLClause"
    /\ Return(JQLClause_serialize_to_jql(input))

Call_JQLOrderBy_serialize_to_jql ==
    /\ fn = "JQLOrderBy"
    /\ Return(JQLOrderBy_serialize_to_jql(input))

Call_JQLStatement_serialize_to_jql ==
    /\ fn = "JQLStatement"
    /\ Return(JQLStatement_serialize_to_jql(input))

NextJql ==
    \/ Call_escape_text_field
    \/ Call_JQLValue_serialize_to_jql
    \/ Call_JQLClause_serialize_to_jql
    \/ Call_JQLOrderBy_serialize_to_jql
    \/ Call_JQLStatement_serialize_to_jql

SpecJql == InitJql /\ [][NextJql]_vars

----------------------------------------------------------------------------
(* get_string_in_json and SearchIssue::status_category *)

\* deepest nesting of the JSON values handed to get_string_in_json
MaxJsonDepth == 2

\* longest path handed to get_string_in_json
MaxPathLen == 3

Json_Null == [variant |-> "Null"]

Json_String(s) == [variant |-> "String", s |-> s]

\* m is a function from the keys of the object to their values
Json_Object(m) == [variant |-> "Object", m |-> m]

JsonKeys == {"statusCategory", "name"}

\* the JSON values nested at most depth deep
RECURSIVE JsonValues(_)
JsonValues(depth) ==
    IF depth = 0 THEN {Json_Null, Json_String("Done")}
    ELSE JsonValues(0) \cup
         UNION {{Json_Object(m) : m \in [keys -> JsonValues(depth - 1)]} :
                    keys \in SUBSET JsonKeys}

JsonPaths == UNION {SeqsOfLen(JsonKeys, n) : n \in 0..MaxPathLen}

\* the for loop over 0..(path.len() - 1), from turn i (counted from 1) on
RECURSIVE descend(_, _, _)
descend(current_value, path, i) ==
    IF i > Len(path) - 1 THEN current_value
    ELSE IF current_value.variant = "Object" /\ path[i] \in DOMAIN current_value.m
         THEN descend(current_value.m[path[i]], path, i + 1)
         ELSE descend(current_value, path, i + 1)

get_string_in_json(value, path) ==
    IF Len(path) = 0 THEN None
    ELSE LET current_value == descend(value, path, 1)
             last == path[Len(path)]
         IN IF /\ current_value.variant = "Object"
               /\ last \in DOMAIN current_value.m
               /\ current_value.m[last].variant = "String"
            THEN Some(current_value.m[last].s)
            ELSE None

\* self.fields is a function from the names of the fields of the issue to JSON values
status_category(self_fields) ==
    IF "status" \in DOMAIN self_fields
    THEN get_string_in_json(self_fields["status"], <<"statusCategory", "name">>)
    ELSE None

InitJson ==
    /\ \/ /\ fn = "get_string_in_json"
          /\ input \in [value : JsonValues(MaxJsonDepth), path : JsonPaths]
       \/ /\ fn = "status_category"
          /\ input \in UNION {[names -> JsonValues(MaxJsonDepth)] : names \in SUBSET {"status"}}
    /\ returned = FALSE
    /\ output = None
    /\ SearchIdle

Call_get_string_in_json ==
    /\ fn = "get_string_in_json"
    /\ Return(get_string_in_json(input.value, input.path))

Call_status_category ==
    /\ fn = "status_category"
    /\ Return(status_category(input))

NextJson ==
    \/ Call_get_string_in_json
    \/ Call_status_category

SpecJson == InitJson /\ [][NextJson]_vars

----------------------------------------------------------------------------
(* #[derive(Clone)] of the JQL types: every field is cloned in turn *)

JQLValue_clone(value) ==
    IF value.variant = "String" THEN JQLValue_String(value.contents)
    ELSE JQLValue_NaiveDate(value.date)

RECURSIVE JQLClause_clone(_)
JQLClause_clone(clause) ==
    CASE clause.variant = "And" -> JQLClause_And(map(JQLClause_clone, clause.clauses))
      [] clause.variant = "Equals" ->
            JQLClause_Equals(clause.field, JQLValue_clone(clause.value))
      [] clause.variant = "GreaterThanEquals" ->
            JQLClause_GreaterThanEquals(clause.field, JQLValue_clone(clause.value))
      [] clause.variant = "In" -> JQLClause_In(clause.field, map(JQLValue_clone, clause.values))
      [] clause.variant = "LessThanEquals" ->
            JQLClause_LessThanEquals(clause.field, JQLValue_clone(clause.value))

JQLOrderByPart_clone(part) ==
    [field |-> part.field,
     ordering |-> IF part.ordering.variant = "Some" THEN Some(part.ordering.value) ELSE None]

JQLOrderBy_clone(order_by) == map(JQLOrderByPart_clone, order_by)

\* a clone that leaves the ordering behind
JQLStatement_clone_without_order_by(statement) ==
    [clause |-> JQLClause_clone(statement.clause), order_by |-> None]

JQLStatement_clone(statement) ==
    [clause |-> JQLClause_clone(statement.clause),
     order_by |-> IF statement.order_by.variant = "Some"
                  THEN Some(JQLOrderBy_clone(statement.order_by.value))
                  ELSE None]

----------------------------------------------------------------------------
(* RestClient::search and RestClient::search_all *)

\* most requests one call of search_all is followed for
MaxRequests == 3

\* most issues in the result set of a server that serves a fixed result set
MaxIssues == 200

max_results == 100

Ok(x) == [variant |-> "Ok", value |-> x]

Err(e) == [variant |-> "Err", error |-> e]

\* the JSON body of the POST to /search: the SearchRequest as serde writes it, the
\* statement as the string serialize_to_jql gives (impl Serialize for JQLStatement)
SearchRequest_json(request_fields, statement, request_start_at, request_max_results) ==
    [fields |-> request_fields,
     jql |-> JQLStatement_serialize_to_jql(statement),
     maxResults |-> request_max_results,
     startAt |-> request_start_at]

\* the body search posts: the fields copied, the statement cloned
search_body(self_fields, statement, request_start_at, request_max_results) ==
    SearchRequest_json([i \in 1..Len(self_fields) |-> self_fields[i]],
                       JQLStatement_clone(statement),
                       request_start_at, request_max_results)

\* issues are told apart by a number
IssuesFrom(base, n) == [i \in 1..n |-> base + i]

Min(a, b) == IF a < b THEN a ELSE b

\* the sizes of the pages a server may answer with, whatever was asked
PageSizes == {0, 1, max_results - 1, max_results, max_results + 1}

\* the pages a server may answer a request with. A "fixed" server holds the issues
\* 1..n and serves the page the request asks for; an "any" server answers with a
\* page of any size, counted from the offset asked for or from the start.
ServerPages(srv, body) ==
    IF srv.kind = "fixed"
    THEN {IF body.startAt >= srv.n THEN <<>>
          ELSE IssuesFrom(body.startAt, Min(body.maxResults, srv.n - body.startAt))}
    ELSE {IssuesFrom(base, n) : base \in {0, body.startAt}, n \in PageSizes}

Servers == {[kind |-> "fixed", n |-> n] : n \in 0..MaxIssues} \cup {[kind |-> "any", n |-> 0]}

\* the ways search fails: send(), error_for_status(), response.json()
SearchErrors == {"send", "status", "json"}

\* the statements search_all is called with
SearchStatements ==
    {[clause |-> JQLClause_And(<<>>), order_by |-> None],
     [clause |-> JQLClause_In(<<"p", "r", "o", "j", "e", "c", "t">>,
                              <<JQLValue_String(<<"S", "R", "E">>),
                                JQLValue_String(<<"^", "a", Quote>>)>>),
      order_by |-> Some(<<>>)],
     [clause |-> JQLClause_And(<<
                    JQLClause_Equals(<<"c", "f", "[", "7", "]">>, JQLValue_String(<<"P">>)),
                    JQLClause_GreaterThanEquals(<<"d", "u", "e">>,
                        JQLValue_NaiveDate([year |-> 2022, month |-> 5, day |-> 10])),
                    JQLClause_LessThanEquals(<<"d", "u", "e">>,
                        JQLValue_NaiveDate([year |-> 2022, month |-> 6, day |-> 13]))>>),
      order_by |-> Some(<<[field |-> <<"k", "e", "y">>, ordering |-> None],
                          [field |-> <<"d", "u", "e">>, ordering |-> Some("Desc")]>>)]}

InitSearch ==
    /\ fn = "search_all"
    /\ input = None
    /\ returned = FALSE
    /\ output = None
    /\ pc = "loop"
    /\ server \in Servers
    /\ fields \in {<<>>, <<"status", "summary">>}
    /\ jql \in SearchStatements
    /\ start_at = 0
    /\ result = <<>>
    /\ sent = <<>>
    /\ pages = <<>>
    /\ ret = None

\* the test that ends the loop, with <= for <
is_last_page_or_full(num_responses) == num_responses <= max_results

is_last_page(num_responses) == num_responses < max_results

\* the next offset taken for a page number
next_start_at_page_number(offset, num_responses) == offset + 1

\* u64 addition; the offsets of a run of MaxRequests requests stay far below 2^64
next_start_at(offset, num_responses) == offset + num_responses

\* one turn of the loop in which search returns Ok: the request is posted, the server
\* answers with a page, the page is appended, and the loop breaks or moves on
SearchAll_page ==
    /\ pc = "loop"
    /\ Len(sent) < MaxRequests
    /\ LET body == search_body(fields, jql, start_at, max_results) IN
       \E response_issues \in ServerPages(server, body) :
          LET num_responses == Len(response_issues) IN
          /\ sent' = Append(sent, body)
          /\ pages' = Append(pages, response_issues)
          /\ result' = result \o response_issues
          /\ IF is_last_page(num_responses)
             THEN /\ pc' = "done"
                  /\ ret' = Ok(result')
                  /\ start_at' = start_at
             ELSE /\ pc' = "loop"
                  /\ ret' = ret
                  /\ start_at' = next_start_at(start_at, num_responses)
    /\ UNCHANGED <<server, fields, jql>>
    /\ UNCHANGED callVars

\* SearchAll_error with the error swallowed: the loop breaks and the issues of the
\* earlier pages are returned
SearchAll_error_partial ==
    /\ pc = "loop"
    /\ Len(sent) < MaxRequests
    /\ \E e \in SearchErrors :
          /\ sent' = Append(sent, search_body(fields, jql, start_at, max_results))
          /\ pc' = "done"
          /\ ret' = Ok(result)
    /\ UNCHANGED <<server, fields, jql, start_at, result, pages>>
    /\ UNCHANGED callVars

\* one turn of the loop in which search returns Err: the ? returns it from search_all
SearchAll_error ==
    /\ pc = "loop"
    /\ Len(sent) < MaxRequests
    /\ \E e \in SearchErrors :
          /\ sent' = Append(sent, search_body(fields, jql, start_at, max_results))
          /\ pc' = "err"
          /\ ret' = Err(e)
    /\ UNCHANGED <<server, fields, jql, start_at, result, pages>>
    /\ UNCHANGED callVars

NextSearch ==
    \/ SearchAll_page
    \/ SearchAll_error

SpecSearch == InitSearch /\ [][NextSearch]_vars

----------------------------------------------------------------------------
(* Properties of the JQL builder, checked under SpecJql *)

\* the concatenation of a sequence of strings, a separator before all but the first
RECURSIVE Separated(_, _, _)
Separated(strs, sep, i) ==
    IF i = 0 THEN <<>>
    ELSE Separated(strs, sep, i - 1) \o (IF i > 1 THEN sep ELSE <<>>) \o strs[i]

\* the image of one character of a text under escaping
EscapedImage(c) ==
    IF c = "\"" THEN <<"\\", "\"">>
    ELSE IF c \in {"+", "-", "&", "|", "!", "(", ")", "{", "}", "[", "]", "^", "~", "*", "?",
                   "\\", ":"}
         THEN <<"\\", "\\", c>>
         ELSE <<c>>

\* C1: escape_text_field(s) is a double quote, the images of the characters of s in
\* order (backslash-quote for a quote, two backslashes and the character for a
\* reserved character, the character itself otherwise), and a double quote; the
\* empty string gives the two quotes alone.
C1_EscapeTextField ==
    (fn = "escape_text_field" /\ returned) =>
        /\ output = <<"\"">> \o Separated([i \in 1..Len(input) |-> EscapedImage(input[i])],
                                           <<>>, Len(input)) \o <<"\"">>
        /\ (input = <<>> => output = <<"\"", "\"">>)

\* a text with a quote, a reserved character and a non-ASCII character has been escaped
C1_Witness ==
    /\ fn = "escape_text_field"
    /\ returned
    /\ input = <<"\"", "é">>
    /\ output = <<"\"", "\\", "\"", "é", "\"">>

Str_ORDER_BY_createdDate_DESC ==
    <<" ", "O", "R", "D", "E", "R", " ", "B", "Y", " ",
      "c", "r", "e", "a", "t", "e", "d", "D", "a", "t", "e", " ", "D", "E", "S", "C">>

\* C2: a statement whose order_by is Some(empty) serializes as the statement with
\* the same clause and order_by None does, to the clause alone; with a non-empty
\* ordering it serializes to the clause, one space, the ordering, so that the
\* ordering [(createdDate, Desc)] appends ' ORDER BY createdDate DESC'.
C2_Statement ==
    (fn = "JQLStatement" /\ returned) =>
        LET clause == JQLClause_serialize_to_jql(input.clause) IN
        /\ input.order_by = None => output = clause
        /\ (input.order_by # None /\ input.order_by.value = <<>>) =>
                /\ output = clause
                /\ output = JQLStatement_serialize_to_jql([input EXCEPT !.order_by = None])
        /\ (input.order_by # None /\ input.order_by.value # <<>>) =>
                /\ output = clause \o <<" ">> \o JQLOrderBy_serialize_to_jql(input.order_by.value)
                /\ input.order_by.value =
                        <<[field |-> <<"c", "r", "e", "a", "t", "e", "d", "D", "a", "t", "e">>,
                           ordering |-> Some("Desc")]>>
                     => output = clause \o Str_ORDER_BY_createdDate_DESC

\* a statement with a clause of several nodes and an empty ordering has been serialized
C2_Witness ==
    /\ fn = "JQLStatement"
    /\ returned
    /\ input.order_by = Some(<<>>)
    /\ input.clause.variant = "And"
    /\ Len(input.clause.clauses) = 2
    /\ Len(output) > 2

\* C3: And([c1..cn]) serializes to '(' , the serializations of c1..cn in order
\* joined by ' AND ', and ')': '()' for n = 0, no ' AND ' at that level for n = 1.
C3_And ==
    (fn = "JQLClause" /\ returned /\ input.variant = "And") =>
        LET cs == input.clauses
            parts == [i \in 1..Len(cs) |-> JQLClause_serialize_to_jql(cs[i])]
        IN /\ output = <<"(">> \o Separated(parts, <<" ", "A", "N", "D", " ">>, Len(cs))
                            \o <<")">>
           /\ Len(cs) = 0 => output = <<"(", ")">>
           /\ Len(cs) = 1 => output = <<"(">> \o parts[1] \o <<")">>

\* a conjunction of two clauses, the first a nested conjunction, has been serialized
C3_Witness ==
    /\ fn = "JQLClause"
    /\ returned
    /\ input.variant = "And"
    /\ Len(input.clauses) = 2
    /\ input.clauses[1].variant = "And"
    /\ Len(input.clauses[1].clauses) = 1
    /\ input.clauses[2].variant = "In"

\* C4: In(f, [v1..vn]) serializes to f as it is, ' IN (', the serializations of
\* v1..vn in order joined by ', ', and ')': f and ' IN ()' for n = 0.
C4_In ==
    (fn = "JQLClause" /\ returned /\ input.variant = "In") =>
        LET vs == input.values
            parts == [i \in 1..Len(vs) |-> JQLValue_serialize_to_jql(vs[i])]
        IN /\ output = input.field \o <<" ", "I", "N", " ", "(">>
                            \o Separated(parts, <<",", " ">>, Len(vs)) \o <<")">>
           /\ Len(vs) = 0 => output = input.field \o <<" ", "I", "N", " ", "(", ")">>

\* a membership test of a field with reserved characters against three values, the
\* first two different, has been serialized
C4_Witness ==
    /\ fn = "JQLClause"
    /\ returned
    /\ input.variant = "In"
    /\ input.field = <<"c", "f", "[", "7", "]">>
    /\ Len(input.values) = 3
    /\ input.values[1] # input.values[2]
    /\ SubSeq(output, 1, 5) = <<"c", "f", "[", "7", "]">>

\* a term of an ordering as the grammar writes it
OrderTerm(part) ==
    IF part.ordering = None THEN part.field
    ELSE IF part.ordering = Some("Asc") THEN part.field \o <<" ", "A", "S", "C">>
    ELSE part.field \o <<" ", "D", "E", "S", "C">>

\* C5: a non-empty JQLOrderBy serializes to 'ORDER BY ' and its terms in the order
\* given, joined by ', '; a term is its field alone without a direction, the field
\* and ' ASC' or ' DESC' with one.
C5_OrderBy ==
    (fn = "JQLOrderBy" /\ returned /\ input # <<>>) =>
        output = <<"O", "R", "D", "E", "R", " ", "B", "Y", " ">>
                    \o Separated([i \in 1..Len(input) |-> OrderTerm(input[i])],
                                 <<",", " ">>, Len(input))

\* an ordering of two terms on different fields, one descending, has been serialized
C5_Witness ==
    /\ fn = "JQLOrderBy"
    /\ returned
    /\ Len(input) = 2
    /\ input[1].field # input[2].field
    /\ input[1].ordering = Some("Desc")
    /\ input[2].ordering = None

DecimalDigits == {"0", "1", "2", "3", "4", "5", "6", "7", "8", "9"}

\* the number a string of decimal digits writes
RECURSIVE DecimalValue(_)
DecimalValue(digits) ==
    IF digits = <<>> THEN 0
    ELSE 10 * DecimalValue(SubSeq(digits, 1, Len(digits) - 1))
            + (CHOOSE d \in 0..9 : DigitChar(d) = digits[Len(digits)])

\* out is the date written "YYYY-MM-DD" between double quotes: twelve characters
QuotedIsoDate(date, out) ==
    /\ Len(out) = 12
    /\ out[1] = "\"" /\ out[12] = "\""
    /\ out[6] = "-" /\ out[9] = "-"
    /\ \A i \in {2, 3, 4, 5, 7, 8, 10, 11} : out[i] \in DecimalDigits
    /\ DecimalValue(SubSeq(out, 2, 5)) = date.year
    /\ DecimalValue(SubSeq(out, 7, 8)) = date.month
    /\ DecimalValue(SubSeq(out, 10, 11)) = date.day
    /\ \A i \in 1..Len(out) : out[i] # "\\"

\* C6 as stated: every date a NaiveDate can hold serializes to a quote, a 4-digit
\* year, '-', a 2-digit month, '-', a 2-digit day and a quote, twelve characters.
C6_EveryDate ==
    (fn = "JQLValue" /\ returned /\ input.variant = "NaiveDate") =>
        QuotedIsoDate(input.date, output)

\* C6: a date of a year from 0 to 9999 serializes to a quote, the year in 4 digits,
\* '-', the month in 2 digits, '-', the day in 2 digits and a quote, twelve
\* characters, none of them a backslash.
C6_FourDigitYears ==
    (fn = "JQLValue" /\ returned /\ input.variant = "NaiveDate"
        /\ input.date.year \in 0..9999) =>
        QuotedIsoDate(input.date, output)

\* a date of the year 7, with a month and a day of one digit, has been serialized
C6_Witness ==
    /\ fn = "JQLValue"
    /\ returned
    /\ input = JQLValue_NaiveDate([year |-> 7, month |-> 3, day |-> 9])
    /\ output = <<"\"", "0", "0", "0", "7", "-", "0", "3", "-", "0", "9", "\"">>

----------------------------------------------------------------------------
(* Properties of get_string_in_json, checked under SpecJson *)

\* the value reached from value through the keys of path in order, every step
\* finding an object that has the key; None when a step does not
RECURSIVE ValueAtPath(_, _)
ValueAtPath(value, path) ==
    IF path = <<>> THEN Some(value)
    ELSE IF value.variant = "Object" /\ Head(path) \in DOMAIN value.m
         THEN ValueAtPath(value.m[Head(path)], Tail(path))
         ELSE None

StringAtPath(value, path) ==
    LET reached == ValueAtPath(value, path)
    IN IF path # <<>> /\ reached # None /\ reached.value.variant = "String"
       THEN Some(reached.value.s)
       ELSE None

\* C9: get_string_in_json(value, path) is Some(s) exactly when path is not empty and
\* the descent from value through the keys of path, in order, finds an object with
\* the key at every step and reaches the JSON string s; it is None in every other
\* case.
C9_GetStringInJson ==
    (fn = "get_string_in_json" /\ returned) =>
        output = StringAtPath(input.value, input.path)

----------------------------------------------------------------------------
(* Properties of search_all, checked under SpecSearch *)

\* the pages 1..k one after the other
RECURSIVE Concatenated(_, _)
Concatenated(ps, k) ==
    IF k = 0 THEN <<>> ELSE Concatenated(ps, k - 1) \o ps[k]

C8_Pagination ==
    pc \in {"loop", "done"} =>
        /\ Len(sent) = Len(pages)
        /\ \A k \in 1..Len(sent) :
              /\ sent[k].maxResults = 100
              /\ sent[k].startAt = Len(Concatenated(pages, k - 1))
        /\ \A k \in 1..(Len(pages) - 1) : Len(pages[k]) >= 100
        /\ pc = "done" <=> (pages # <<>> /\ Len(pages[Len(pages)]) < 100)
        /\ pc = "done" => ret = Ok(Concatenated(pages, Len(pages)))
        /\ pc = "loop" => ret = None

\* a call has ended after two full pages and a short third one
C8_Witness ==
    /\ pc = "done"
    /\ server.kind = "any"
    /\ Len(pages) = 3
    /\ Len(pages[1]) = 100
    /\ Len(pages[2]) = 100
    /\ Len(pages[3]) = 1
    /\ sent[3].startAt = 200
    /\ Len(ret.value) = 201

\* C10: against a server with a fixed result set of N issues search_all makes
\* exactly N div 100 + 1 requests and returns the N issues: it is still running
\* only with at most N div 100 requests made, and ends with N div 100 + 1 made;
\* for N a positive multiple of 100 the last request follows a full page and is
\* answered with an empty one, and for N = 0 there is one request.
C10_FixedResultSet ==
    server.kind = "fixed" =>
        LET N == server.n IN
        /\ pc = "loop" => Len(sent) <= N \div 100
        /\ pc = "done" =>
              /\ Len(sent) = N \div 100 + 1
              /\ ret = Ok([i \in 1..N |-> i])
              /\ (N > 0 /\ N % 100 = 0) =>
                    /\ pages[Len(pages)] = <<>>
                    /\ Len(pages[Len(pages) - 1]) = 100
              /\ N = 0 => Len(sent) = 1

\* a call against a result set of 200 issues has ended after its third request
C10_Witness ==
    /\ server.kind = "fixed"
    /\ server.n = 200
    /\ pc = "done"
    /\ Len(sent) = 3
    /\ pages[3] = <<>>
    /\ Len(ret.value) = 200

\* C11: when a page request fails, search_all returns that error at once: the
\* failed request is the last one posted, the value returned is the Err of the
\* failure and holds none of the issues of the earlier pages, and nothing is
\* posted or returned afterwards.
C11_ErrorEndsCall ==
    /\ [](/\ Len(sent) > Len(pages) <=> pc = "err"
          /\ pc = "err" =>
                /\ Len(sent) = Len(pages) + 1
                /\ ret \in {Err(e) : e \in SearchErrors}
                /\ result = Concatenated(pages, Len(pages))
          /\ ret.variant = "Err" => pc = "err")
    /\ [][pc = "err" => (pc' = "err" /\ sent' = sent /\ ret' = ret)]_vars

\* the third request of a call failed to decode after two full pages were received
C11_Witness ==
    /\ pc = "err"
    /\ ret = Err("json")
    /\ Len(sent) = 3
    /\ Len(pages) = 2
    /\ Len(result) = 200
    /\ sent[3].startAt = 200

====
